---- MODULE Spec2Model ----
(***************************************************************************)
(* The BI dashboard of src/app.py as a state machine.  One run of the      *)
(* script is one render cycle: module selection and load_csv (lines        *)
(* 53-55), render_filters (72), render_metrics (133), render_charts (165)  *)
(* and render_cards (187).  An uncaught exception ends the run; the next   *)
(* interaction starts a new one.  The st.cache_data cache of load_csv and  *)
(* the files on disk outlive the runs.                                     *)
(***************************************************************************)
EXTENDS Integers, Sequences, FiniteSets, TLC

VARIABLES
    files,          \* the CSV files on disk, by file path
    cache,          \* st.cache_data entries of load_csv, by file path
    reads,          \* how often pd.read_csv ran, by file path
    first_result,   \* the table the first load_csv call returned, by file path
    runs_left,      \* script runs (interactions) still to come
    changes_left,   \* rewrites of a file on disk still to come
    pc,             \* position of the current script run
    selected_csv,   \* the module picked in the sidebar
    shown_rows,     \* df.shape[0] written into the subheader
    heap,           \* the DataFrame objects of the current run, by reference
    df,             \* reference returned by load_csv
    df_filtered,    \* reference returned by render_filters
    filters,        \* the filters dict of render_filters
    mutated,        \* references of DataFrames assigned into in place
    today,          \* what pd.Timestamp.today() last returned
    metrics,        \* the st.metric calls of the run: <<label, value>>
    chart,          \* what render_charts did
    max_cols,       \* the max_cols argument of render_cards
    cards           \* the grid render_cards produced

vars == <<files, cache, reads, first_result, runs_left, changes_left, pc,
          selected_csv, shown_rows, heap, df, df_filtered, filters, mutated,
          today, metrics, chart, max_cols, cards>>

(***************************************************************************)
(* Bounds of the model.                                                    *)
(***************************************************************************)
MaxRuns == 2            \* script runs in a session
MaxFileChanges == 1     \* rewrites of files during a session
MaxNow == 3             \* latest clock reading, in half days (see Ts)
MaxCardRows == 7        \* rows of the tables render_cards is tried on
MaxCardCols == 4        \* largest max_cols render_cards is tried with
MaxEnum == 3            \* option sets up to this size: every selection tried

(***************************************************************************)
(* Cells.  A cell is text, a number, a timestamp or missing (NaN / NaT).   *)
(* Timestamps count half days: 2*d is midnight of day d, 2*d+1 its noon.   *)
(***************************************************************************)
Str(s) == [k |-> "str", s |-> s, n |-> 0]
Num(n) == [k |-> "num", s |-> "", n |-> n]
Ts(n)  == [k |-> "ts",  s |-> "", n |-> n]
NA     == [k |-> "na",  s |-> "", n |-> 0]

IsNull(c) == c.k = "na"

Range(s) == {s[i] : i \in DOMAIN s}

RECURSIVE SeqSum(_)
SeqSum(s) == IF s = <<>> THEN 0 ELSE Head(s) + SeqSum(Tail(s))

(***************************************************************************)
(* DataFrames: ordered column labels, a dtype per column, ordered rows.    *)
(***************************************************************************)
DataFrame(columns, dtypes, rows) ==
    [columns |-> columns, dtypes |-> dtypes, rows |-> rows]

EmptyDataFrame == DataFrame(<<>>, [c \in {} |-> "object"], <<>>)

Columns(t) == Range(t.columns)


(***************************************************************************)
(* Files.  A file is missing, unparseable, or a header of column names     *)
(* (each possibly written with surrounding blanks) over rows of fields.    *)
(* A field is a numeric literal Num(n), other text Str(s), or empty NA.    *)
(***************************************************************************)
MissingFile == [state |-> "missing", header |-> <<>>, rows |-> <<>>]
CorruptFile == [state |-> "corrupt", header |-> <<>>, rows |-> <<>>]
CsvFile(header, rows) == [state |-> "ok", header |-> header, rows |-> rows]
H(name) == [name |-> name, pad |-> 0]
HPad(name) == [name |-> name, pad |-> 1]

\* pd.read_csv: raises on a missing or unparseable file and on one without
\* a header line; else the raw frame.
\* A column is numeric when it has rows and every non-empty field is a
\* numeric literal; otherwise it is object and its literals stay text.
ReadCsvKind(f, j) ==
    IF f.rows # <<>> /\ \A i \in DOMAIN f.rows : f.rows[i][j].k \in {"num", "na"}
    THEN "number" ELSE "object"

ReadCsvCell(kind, c) ==
    IF kind = "object" /\ c.k = "num" THEN Str(ToString(c.n)) ELSE c

read_csv(f) ==
    IF f.state # "ok" \/ f.header = <<>>
    THEN [raised |-> TRUE, header |-> <<>>, kinds |-> <<>>, rows |-> <<>>]
    ELSE [raised |-> FALSE,
          header |-> f.header,
          kinds  |-> [j \in DOMAIN f.header |-> ReadCsvKind(f, j)],
          rows   |-> [i \in DOMAIN f.rows |->
                        [j \in DOMAIN f.header |->
                            ReadCsvCell(ReadCsvKind(f, j), f.rows[i][j])]]]

\* c.strip(): the name without its surrounding blanks.
strip(h) == h.name

\* any(x in col.lower() for x in ['date','start','end','created','due']),
\* decided for the column names the files of the model use.
IsTemporalName(c) == c \in {"Next Follow-Up Date", "Due Date", "Start Date"}

\* The texts pd.to_datetime parses, with their timestamps; any other text,
\* and a missing value, becomes NaT.  A timestamp stays what it is.
ParseTimestamp(s) ==
    CASE s = "2026-11-03" -> Ts(0)
      [] s = "2026-11-03 12:00" -> Ts(1)
      [] s = "2026-11-04" -> Ts(2)
      [] s = "2026-11-04 12:00" -> Ts(3)
      [] s = "2026-11-05" -> Ts(4)
      [] OTHER -> NA

to_datetime(c) ==
    CASE c.k = "ts" -> c
      [] c.k = "str" -> ParseTimestamp(c.s)
      [] c.k = "num" -> Ts(0 - 41000)     \* nanoseconds after 1970-01-01
      [] OTHER -> NA

CoerceColumn(t, col) ==
    DataFrame(t.columns,
              [c \in Columns(t) |-> IF c = col THEN "datetime" ELSE t.dtypes[c]],
              [i \in DOMAIN t.rows |->
                  [c \in Columns(t) |->
                      IF c = col THEN to_datetime(t.rows[i][c]) ELSE t.rows[i][c]]])

RECURSIVE CoerceDates(_, _)
CoerceDates(t, cols) ==
    IF cols = <<>> THEN t
    ELSE CoerceDates(IF IsTemporalName(Head(cols)) THEN CoerceColumn(t, Head(cols)) ELSE t,
                     Tail(cols))

\* Lines 40-46: the frame read, its labels stripped, its date columns coerced.
Frame(raw) ==
    LET names == [j \in DOMAIN raw.header |-> strip(raw.header[j])]
        idx(c) == CHOOSE j \in DOMAIN names : names[j] = c
        t == DataFrame(names,
                       [c \in Range(names) |-> raw.kinds[idx(c)]],
                       [i \in DOMAIN raw.rows |->
                           [c \in Range(names) |-> raw.rows[i][idx(c)]]])
    IN CoerceDates(t, names)

\* load_csv without its except clause: the error of read_csv leaves it.
load_csv_body_NoExcept(f) ==
    LET raw == read_csv(f)
    IN IF raw.raised THEN [raised |-> TRUE, value |-> EmptyDataFrame]
       ELSE [raised |-> FALSE, value |-> Frame(raw)]

\* The body of load_csv, lines 39-48: the bare except swallows every error.
load_csv_body(f) ==
    LET raw == read_csv(f)
    IN IF raw.raised THEN [raised |-> FALSE, value |-> EmptyDataFrame]
       ELSE [raised |-> FALSE, value |-> Frame(raw)]

(***************************************************************************)
(* render_filters, lines 60-70.                                            *)
(***************************************************************************)
MinUniqueExclusive == 1
MaxUnique == 50

\* df[col].dropna().unique()
unique_vals(t, col) == {t.rows[i][col] : i \in DOMAIN t.rows} \ {NA}

\* The test of line 64 without its upper limit.
IsFilterColumn_NoUpperBound(t, col) ==
    /\ t.dtypes[col] \in {"object", "category"}
    /\ Cardinality(unique_vals(t, col)) > MinUniqueExclusive

\* select_dtypes(include=['object','category']) and the test of line 64
IsFilterColumn(t, col) ==
    /\ t.dtypes[col] \in {"object", "category"}
    /\ Cardinality(unique_vals(t, col)) > MinUniqueExclusive
    /\ Cardinality(unique_vals(t, col)) <= MaxUnique

FilterColumns(t) == {c \in Columns(t) : IsFilterColumn(t, c)}

\* What st.sidebar.multiselect can return: a subset of its options.  Every
\* subset for option sets of up to MaxEnum values; for larger ones all of
\* them (the default), none, and all but one.
Choices(options) ==
    IF Cardinality(options) <= MaxEnum THEN SUBSET options
    ELSE {options, {}} \cup {options \ {v} : v \in options}

\* The filters dict: one entry per multiselect shown.
FilterDicts(t) == [FilterColumns(t) -> UNION {Choices(unique_vals(t, c)) : c \in FilterColumns(t)}]

PossibleFilters(t) ==
    {f \in FilterDicts(t) : \A c \in FilterColumns(t) : f[c] \in Choices(unique_vals(t, c))}

DefaultFilters(t) == [c \in FilterColumns(t) |-> unique_vals(t, c)]

\* filtered_df[filtered_df[col].isin(vals)]: NaN is in no list of options.
isin(c, vals) == c \in vals

BooleanIndex(t, col, vals) ==
    DataFrame(t.columns, t.dtypes, SelectSeq(t.rows, LAMBDA r : isin(r[col], vals)))

\* Filtering on every column, one without an entry as on an empty selection.
RECURSIVE ApplyFilters_EveryColumn(_, _, _)
ApplyFilters_EveryColumn(t, cols, flt) ==
    IF cols = <<>> THEN t
    ELSE ApplyFilters_EveryColumn(
            BooleanIndex(t, Head(cols),
                         IF Head(cols) \in DOMAIN flt THEN flt[Head(cols)] ELSE {}),
            Tail(cols), flt)

\* for col, vals in filters.items(): one boolean indexing per entry
RECURSIVE ApplyFilters(_, _, _)
ApplyFilters(t, cols, flt) ==
    IF cols = <<>> THEN t
    ELSE ApplyFilters(IF Head(cols) \in DOMAIN flt
                      THEN BooleanIndex(t, Head(cols), flt[Head(cols)]) ELSE t,
                      Tail(cols), flt)

\* filtered_df = df, the assignment without the copy.
copy_Alias(ref) == ref

\* df.copy() makes a new object, reference 2; boolean indexing makes
\* another, reference 3.  Reference 1 is the object load_csv returned.

copy(ref) == 2

(***************************************************************************)
(* render_metrics, lines 77-131.                                           *)
(***************************************************************************)
Modules == {"Sales Tracking", "Products", "Follow-Ups", "Invoices",
            "Subscriptions", "Support & Tickets", "Project Management",
            "Team Management"}

\* csv_files, lines 23-32
csv_files(m) ==
    CASE m = "Sales Tracking" -> "sales_tracking.csv"
      [] m = "Products" -> "products.csv"
      [] m = "Follow-Ups" -> "follow_ups.csv"
      [] m = "Invoices" -> "invoices.csv"
      [] m = "Subscriptions" -> "subscriptions.csv"
      [] m = "Support & Tickets" -> "support_tickets.csv"
      [] m = "Project Management" -> "project_management.csv"
      [] m = "Team Management" -> "team_management.csv"

Paths == {csv_files(m) : m \in Modules}

\* One entry per st.metric of a module, in the order shown: the label, the
\* computation, the column it reads, and the values a count looks for.
Metric(label, op, col, vals) == [label |-> label, op |-> op, col |-> col, vals |-> vals]

MetricSpecs(m) ==
    CASE m = "Sales Tracking" ->
            << Metric("Total Deals", "len", "", {}),
               Metric("Closed Won Deals", "count", "Status", {Str("Closed Won")}),
               Metric("Total Revenue", "sum_currency", "Deal Value", {}) >>
      [] m = "Products" ->
            << Metric("Total Products", "len", "", {}),
               Metric("Active Users", "sum_plain", "Active Users", {}),
               Metric("Monthly Revenue", "sum_currency", "Monthly Recurring Revenue", {}) >>
      [] m = "Support & Tickets" ->
            << Metric("Total Tickets", "len", "", {}),
               Metric("Open Tickets", "count", "Status", {Str("Open"), Str("In Progress")}),
               Metric("Avg Customer Satisfaction", "mean_rating", "Customer Satisfaction", {}) >>
      [] m = "Project Management" ->
            << Metric("Total Projects", "len", "", {}),
               Metric("In Progress", "count", "Status", {Str("In Progress")}),
               Metric("Total Budget", "sum_currency", "Budget", {}) >>
      [] m = "Team Management" ->
            << Metric("Total Employees", "len", "", {}),
               Metric("Average Salary", "mean_currency", "Salary", {}),
               Metric("Average Performance", "mean_rating", "Performance Score", {}) >>
      [] m = "Invoices" ->
            << Metric("Total Invoices", "len", "", {}),
               Metric("Paid", "count", "Status", {Str("Paid")}),
               Metric("Total Amount", "sum_currency", "Price", {}) >>
      [] m = "Subscriptions" ->
            << Metric("Total Subscriptions", "len", "", {}),
               Metric("Active", "count", "Status", {Str("Active")}),
               Metric("Total Revenue", "sum_currency", "Price", {}) >>
      [] m = "Follow-Ups" ->
            << Metric("Total Follow-Ups", "len", "", {}),
               Metric("Upcoming Follow-Ups", "upcoming", "Next Follow-Up Date", {}) >>
      [] OTHER -> <<>>

\* A number as render_metrics holds it: num/den, or NaN.
Exact(n) == [nan |-> FALSE, num |-> n, den |-> 1]
Ratio(n, d) == [nan |-> FALSE, num |-> n, den |-> d]
NaN == [nan |-> TRUE, num |-> 0, den |-> 1]

\* Rounding to the nearest integer, ties to even, as Python formats floats
\* (the values of the model are never negative).
RoundHalfEven(num, den) ==
    LET q == num \div den
        r == num % den
    IN IF 2 * r < den THEN q
       ELSE IF 2 * r > den THEN q + 1
       ELSE IF q % 2 = 0 THEN q ELSE q + 1

Pad3(n) ==
    IF n < 10 THEN "00" \o ToString(n)
    ELSE IF n < 100 THEN "0" \o ToString(n) ELSE ToString(n)

RECURSIVE Grouped(_)
Grouped(n) == IF n < 1000 THEN ToString(n) ELSE Grouped(n \div 1000) \o "," \o Pad3(n % 1000)

\* f"${x:,.0f}"
FormatCurrency(x) ==
    IF x.nan THEN "$nan" ELSE "$" \o Grouped(RoundHalfEven(x.num, x.den))

\* f"{x:.1f}/5"
FormatRating(x) ==
    IF x.nan THEN "nan/5"
    ELSE LET tenths == RoundHalfEven(10 * x.num, x.den)
         IN ToString(tenths \div 10) \o "." \o ToString(tenths % 10) \o "/5"

\* A computation without its column guard.
HasColumn_Always(t, col) == TRUE

\* 'X' in df.columns

HasColumn(t, col) == col \in Columns(t)

\* df['X']: KeyError when the column is absent.
Column(t, col) ==
    IF col \in Columns(t)
    THEN [raised |-> FALSE, cells |-> [i \in DOMAIN t.rows |-> t.rows[i][col]]]
    ELSE [raised |-> TRUE, cells |-> <<>>]

Numbers(cells) == SelectSeq(cells, LAMBDA c : c.k = "num")
NumSum(cells) == SeqSum([i \in DOMAIN Numbers(cells) |-> Numbers(cells)[i].n])

\* Series.sum() and Series.mean() skip missing values; the sum of nothing is
\* 0 and the mean of nothing is NaN.  Text in the column is a TypeError.
Summable(cells) == \A i \in DOMAIN cells : cells[i].k \in {"num", "na"}
Mean(cells) ==
    IF Numbers(cells) = <<>> THEN NaN ELSE Ratio(NumSum(cells), Len(Numbers(cells)))

\* How st.metric shows a bare sum: an int64 sum as it is, a float64 sum (the
\* column has missing values) with its decimal.
PlainSum(cells) ==
    IF \E i \in DOMAIN cells : IsNull(cells[i])
    THEN ToString(NumSum(cells)) \o ".0" ELSE ToString(NumSum(cells))

Shown(text) == [raised |-> FALSE, value |-> text]
Raised == [raised |-> TRUE, value |-> ""]

\* df['Next Follow-Up Date'] >= pd.Timestamp.today(): NaT compares False.
NotBefore(c, now) == c.k = "ts" /\ c.n >= now

\* One metric of a module: its guarded computation and its formatting.
MetricValue(t, spec, now) ==
    IF spec.op = "len" THEN Shown(ToString(Len(t.rows)))
    ELSE IF ~HasColumn(t, spec.col) THEN
        CASE spec.op \in {"count", "upcoming", "sum_plain"} -> Shown("0")
          [] spec.op \in {"sum_currency", "mean_currency"} -> Shown(FormatCurrency(Exact(0)))
          [] spec.op = "mean_rating" -> Shown(FormatRating(Exact(0)))
    ELSE LET col == Column(t, spec.col)
         IN IF col.raised THEN Raised
            ELSE CASE spec.op = "count" ->
                        Shown(ToString(Len(SelectSeq(col.cells, LAMBDA c : c \in spec.vals))))
                   [] spec.op = "upcoming" ->
                        Shown(ToString(Len(SelectSeq(col.cells, LAMBDA c : NotBefore(c, now)))))
                   [] ~Summable(col.cells) -> Raised
                   [] spec.op = "sum_plain" -> Shown(PlainSum(col.cells))
                   [] spec.op = "sum_currency" ->
                        Shown(FormatCurrency(Exact(NumSum(col.cells))))
                   [] spec.op = "mean_currency" -> Shown(FormatCurrency(Mean(col.cells)))
                   [] spec.op = "mean_rating" -> Shown(FormatRating(Mean(col.cells)))

\* render_metrics(df, module_name): the st.metric calls, or an exception
\* from a computation, which comes before the module's first st.metric.
render_metrics(t, m, now) ==
    LET specs == MetricSpecs(m)
        vals == [i \in DOMAIN specs |-> MetricValue(t, specs[i], now)]
    IN IF \E i \in DOMAIN vals : vals[i].raised
       THEN [raised |-> TRUE, shown |-> <<>>]
       ELSE [raised |-> FALSE,
             shown |-> [i \in DOMAIN specs |-> <<specs[i].label, vals[i].value>>]]

(***************************************************************************)
(* render_charts, lines 138-163.                                           *)
(***************************************************************************)
\* Per module: the columns the if tests, the column names handed to the
\* plotly express call, whether the call also gets a value that is no column
\* name (x_start=pd.Timestamp.today()), and whether the branch first assigns
\* the re-parsed date column into the frame (line 161).
ChartSpec(m) ==
    CASE m = "Sales Tracking" ->
            [guard |-> {"Deal Value"}, binds |-> {"Sales Rep", "Deal Value", "Status"},
             scalar |-> FALSE, assigns |-> FALSE]
      [] m = "Products" ->
            [guard |-> {"Monthly Recurring Revenue"},
             binds |-> {"Product Name", "Monthly Recurring Revenue"},
             scalar |-> FALSE, assigns |-> FALSE]
      [] m = "Support & Tickets" ->
            [guard |-> {}, binds |-> {"Priority", "Status"},
             scalar |-> FALSE, assigns |-> FALSE]
      [] m = "Project Management" ->
            [guard |-> {}, binds |-> {"Project Name", "Budget", "Status"},
             scalar |-> FALSE, assigns |-> FALSE]
      [] m = "Team Management" ->
            [guard |-> {}, binds |-> {"Full Name", "Salary", "Department"},
             scalar |-> FALSE, assigns |-> FALSE]
      [] m = "Invoices" ->
            [guard |-> {}, binds |-> {"Customer", "Price", "Status"},
             scalar |-> FALSE, assigns |-> FALSE]
      [] m = "Subscriptions" ->
            [guard |-> {}, binds |-> {"Product", "Price"},
             scalar |-> FALSE, assigns |-> FALSE]
      [] m = "Follow-Ups" ->
            [guard |-> {"Next Follow-Up Date"},
             binds |-> {"Next Follow-Up Date", "Client Name", "Status"},
             scalar |-> TRUE, assigns |-> TRUE]

\* A plotly express call: an argument that is a string, or has no length,
\* is taken for a column name, and a name that is no column of the frame is
\* a ValueError.
px(t, binds, scalar) ==
    IF scalar \/ ~(binds \subseteq Columns(t)) THEN "error" ELSE "drawn"

\* render_charts(df, module_name): "none" (no branch taken), "drawn"
\* (st.plotly_chart ran) or "error" (the exception leaves the script).
render_charts(t, m) ==
    IF ChartSpec(m).guard \subseteq Columns(t)
    THEN px(t, ChartSpec(m).binds, ChartSpec(m).scalar)
    ELSE "none"

\* Line 161: df['Next Follow-Up Date'] = pd.to_datetime(..., errors='coerce')
ChartAssigns(t, m) == ChartSpec(m).assigns /\ ChartSpec(m).guard \subseteq Columns(t)
ChartFrame(t, m) == IF ChartAssigns(t, m) THEN CoerceColumn(t, "Next Follow-Up Date") ELSE t

(***************************************************************************)
(* render_cards, lines 170-185.                                            *)
(***************************************************************************)
DefaultMaxCols == 3

TitleColumns == <<"Client Name", "Project Name", "Full Name", "Product Name">>

FormatTimestamp(n) ==
    CASE n = 0 -> "2026-11-03 00:00:00"
      [] n = 1 -> "2026-11-03 12:00:00"
      [] n = 2 -> "2026-11-04 00:00:00"
      [] n = 3 -> "2026-11-04 12:00:00"
      [] n = 4 -> "2026-11-05 00:00:00"
      [] OTHER -> "1970-01-01 00:00:00"

\* How an f-string prints a cell.
CellText(c, dtype) ==
    CASE c.k = "str" -> c.s
      [] c.k = "num" -> ToString(c.n)
      [] c.k = "ts" -> FormatTimestamp(c.n)
      [] OTHER -> IF dtype = "datetime" THEN "NaT" ELSE "nan"

\* next((c for c in [...] if c in dataframe.columns), None)
title_col(t) ==
    LET hits == SelectSeq(TitleColumns, LAMBDA c : c \in Columns(t))
    IN IF hits = <<>> THEN "" ELSE Head(hits)

\* One tile: the title line, if any, and one line per column, a missing
\* value shown as "-".
Tile(t, row) ==
    [titled |-> title_col(t) # "",
     title  |-> IF title_col(t) = "" THEN ""
                ELSE CellText(row[title_col(t)], t.dtypes[title_col(t)]),
     fields |-> [j \in DOMAIN t.columns |->
                    <<t.columns[j],
                      IF IsNull(row[t.columns[j]]) THEN "-"
                      ELSE CellText(row[t.columns[j]], t.dtypes[t.columns[j]])>>]]

Min(a, b) == IF a < b THEN a ELSE b

\* The slice one row short: iloc[idx:idx+max_cols-1].
GridRow_OneShort(t, idx, cols) ==
    [j \in 1 .. Min(cols - 1, Len(t.rows) - idx) |-> Tile(t, t.rows[idx + j])]

\* dataframe.iloc[idx:idx+max_cols] zipped with the max_cols columns
GridRow(t, idx, cols) ==
    [j \in 1 .. Min(cols, Len(t.rows) - idx) |-> Tile(t, t.rows[idx + j])]

\* for idx in range(0, len(dataframe), max_cols)
RECURSIVE GridFrom(_, _, _)
GridFrom(t, idx, cols) ==
    IF idx >= Len(t.rows) THEN <<>>
    ELSE <<GridRow(t, idx, cols)>> \o GridFrom(t, idx + cols, cols)

render_cards(t, cols) == GridFrom(t, 0, cols)

(***************************************************************************)
(* The files the model puts on disk.                                       *)
(***************************************************************************)
FullFile(m) ==
    CASE m = "Sales Tracking" ->
            CsvFile(<<H("Sales Rep"), HPad("Status"), H("Deal Value")>>,
                    << <<Str("A"), Str("Closed Won"), Num(100)>>,
                       <<Str("B"), Str("Open"), Num(50)>> >>)
      [] m = "Products" ->
            CsvFile(<<H("Product Name"), H("Active Users"), H("Monthly Recurring Revenue")>>,
                    << <<Str("P1"), Num(10), Num(1000)>>,
                       <<Str("P2"), NA, Num(500)>> >>)
      [] m = "Follow-Ups" ->
            CsvFile(<<H("Client Name"), H("Status"), HPad("Next Follow-Up Date")>>,
                    << <<Str("C1"), Str("Pending"), Str("2026-11-05")>>,
                       <<Str("C2"), Str("Done"), Str("2026-11-03")>>,
                       <<Str("C2"), NA, Str("2026-11-04")>> >>)
      [] m = "Invoices" ->
            CsvFile(<<H("Customer"), H("Price"), H("Status"), H("Due Date")>>,
                    << <<Str("X"), Num(200), Str("Paid"), Str("2026-11-05")>>,
                       <<Str("Y"), Num(300), Str("Unpaid"), Str("soon")>> >>)
      [] m = "Subscriptions" ->
            CsvFile(<<H("Product"), H("Price"), H("Status")>>,
                    << <<Str("S1"), Num(10), Str("Active")>>,
                       <<Str("S1"), Num(20), Str("Cancelled")>> >>)
      [] m = "Support & Tickets" ->
            CsvFile(<<H("Priority"), H("Status"), H("Customer Satisfaction")>>,
                    << <<Str("High"), Str("Open"), Num(4)>>,
                       <<Str("Low"), Str("Closed"), Num(5)>>,
                       <<Str("High"), Str("In Progress"), Num(3)>> >>)
      [] m = "Project Management" ->
            CsvFile(<<H("Project Name"), H("Budget"), H("Status")>>,
                    << <<Str("PR1"), Num(1000), Str("In Progress")>>,
                       <<Str("PR2"), Num(2500), Str("Done")>> >>)
      [] m = "Team Management" ->
            CsvFile(<<H("Full Name"), H("Salary"), H("Department"), H("Performance Score")>>,
                    << <<Str("Ann"), Num(1000), Str("Eng"), Num(4)>>,
                       <<Str("Bob"), Num(2001), Str("Ops"), Num(5)>> >>)

\* The columns numbered in keep (in file order) of the first n rows of f.
RECURSIVE Pick(_, _, _)
Pick(s, keep, j) ==
    IF j > Len(s) THEN <<>>
    ELSE (IF j \in keep THEN <<s[j]>> ELSE <<>>) \o Pick(s, keep, j + 1)

Project(f, keep, n) ==
    CsvFile(Pick(f.header, keep, 1),
            [i \in 1 .. n |-> Pick(f.rows[i], keep, 1)])

WithoutColumn(f, name) ==
    Project(f, {j \in DOMAIN f.header : f.header[j].name # name}, Len(f.rows))

\* What each module's file becomes when it is rewritten on disk.
OtherFile(m) ==
    CASE m = "Sales Tracking" -> WithoutColumn(FullFile(m), "Sales Rep")
      [] m = "Products" -> MissingFile
      [] m = "Follow-Ups" -> Project(FullFile(m), {3}, 2)
      [] m = "Invoices" -> CorruptFile
      [] m = "Subscriptions" -> MissingFile
      [] m = "Support & Tickets" -> CorruptFile
      [] m = "Project Management" -> WithoutColumn(FullFile(m), "Budget")
      [] m = "Team Management" -> WithoutColumn(FullFile(m), "Salary")

ModuleOf(p) == CHOOSE m \in Modules : csv_files(m) = p

\* A products file whose name column has k distinct values (and, with gap,
\* one row more whose name is empty) beside a numeric column with as many.
CardinalityFile(k, gap) ==
    CsvFile(<<H("Product Name"), H("Monthly Recurring Revenue")>>,
            [i \in 1 .. (k + (IF gap THEN 1 ELSE 0)) |->
                IF i > k THEN <<NA, Num(i)>>
                ELSE <<Str("P" \o ToString(i)), Num(i)>>])

\* The files a single run is tried on.
ViewFiles(m) ==
    {MissingFile, CorruptFile}
    \cup {Project(FullFile(m), keep, n) :
            keep \in SUBSET (DOMAIN FullFile(m).header), n \in 0 .. Len(FullFile(m).rows)}
    \cup (IF m = "Products"
          THEN {CardinalityFile(k, gap) :
                  k \in {MinUniqueExclusive, MinUniqueExclusive + 1, MaxUnique, MaxUnique + 1},
                  gap \in BOOLEAN}
          ELSE {})

(***************************************************************************)
(* The state machine.                                                      *)
(***************************************************************************)
NoEntry == [cached |-> FALSE, value |-> EmptyDataFrame]
Entry(t) == [cached |-> TRUE, value |-> t]

NoFrames == [r \in {} |-> EmptyDataFrame]
NoFilters == [c \in {} |-> {}]

\* The readings of the clock: 2026-11-04 00:00 up to MaxNow.
Clock == 2 .. MaxNow

Fresh ==
    /\ cache = [p \in Paths |-> NoEntry]
    /\ reads = [p \in Paths |-> 0]
    /\ first_result = [p \in Paths |-> NoEntry]
    /\ pc = "idle"
    /\ selected_csv = "Sales Tracking"
    /\ shown_rows = 0
    /\ heap = NoFrames
    /\ df = 0
    /\ df_filtered = 0
    /\ filters = NoFilters
    /\ mutated = {}
    /\ today = 2
    /\ metrics = <<>>
    /\ chart = "none"
    /\ cards = <<>>

\* A session over the eight files, all as first written or all rewritten.
Init ==
    /\ Fresh
    /\ \/ files = [p \in Paths |-> FullFile(ModuleOf(p))]
       \/ files = [p \in Paths |-> OtherFile(ModuleOf(p))]
    /\ runs_left = MaxRuns
    /\ changes_left = MaxFileChanges
    /\ max_cols = DefaultMaxCols

\* load_csv without the decorator: every call runs the body.
CacheHit_Never(c, p) == FALSE

\* @st.cache_data, line 37: a call whose argument has an entry returns a
\* copy of the entry and does not run the body.

CacheHit(c, p) == c[p].cached

\* Lines 53-55: the selectbox value m, load_csv, the subheader.
StartRun(m) ==
    /\ pc \in {"idle", "done", "crashed"}
    /\ runs_left > 0
    /\ runs_left' = runs_left - 1
    /\ selected_csv' = m
    /\ LET p == csv_files(m)
           hit == CacheHit(cache, p)
           res == IF hit THEN [raised |-> FALSE, value |-> cache[p].value]
                  ELSE load_csv_body(files[p])
       IN /\ reads' = IF hit THEN reads ELSE [reads EXCEPT ![p] = @ + 1]
          /\ cache' = IF hit \/ res.raised THEN cache
                      ELSE [cache EXCEPT ![p] = Entry(res.value)]
          /\ first_result' = IF first_result[p].cached \/ res.raised THEN first_result
                             ELSE [first_result EXCEPT ![p] = Entry(res.value)]
          /\ IF res.raised
             THEN /\ pc' = "crashed"
                  /\ heap' = NoFrames
                  /\ df' = 0
                  /\ shown_rows' = 0
             ELSE /\ pc' = "loaded"
                  /\ heap' = [r \in {1} |-> res.value]
                  /\ df' = 1
                  /\ shown_rows' = Len(res.value.rows)
    /\ df_filtered' = 0
    /\ filters' = NoFilters
    /\ mutated' = {}
    /\ metrics' = <<>>
    /\ chart' = "none"
    /\ cards' = <<>>
    /\ UNCHANGED <<files, changes_left, today, max_cols>>

\* Line 72: render_filters(df) with what the multiselects return.
RenderFilters ==
    /\ pc = "loaded"
    /\ \E flt \in PossibleFilters(heap[df]) :
          LET t == heap[df]
              copied == copy(df)
              ref == IF DOMAIN flt = {} THEN copied ELSE 3
              view == ApplyFilters(t, t.columns, flt)
          IN /\ heap' = [r \in {df, ref} |-> IF r = ref THEN view ELSE t]
             /\ df_filtered' = ref
             /\ filters' = flt
    /\ pc' = "filtered"
    /\ UNCHANGED <<files, cache, reads, first_result, runs_left, changes_left,
                   selected_csv, shown_rows, df, mutated, today, metrics, chart,
                   max_cols, cards>>

\* Does render_metrics call pd.Timestamp.today()?  (line 129)
ReadsClock(t, m) == m = "Follow-Ups" /\ HasColumn(t, "Next Follow-Up Date")

\* Line 133: render_metrics(df_filtered, selected_csv)
RenderMetrics ==
    /\ pc = "filtered"
    /\ \E reading \in Clock :
          LET t == heap[df_filtered]
              r == render_metrics(t, selected_csv, reading)
          IN /\ today' = IF ReadsClock(t, selected_csv) THEN reading ELSE today
             /\ metrics' = r.shown
             /\ pc' = IF r.raised THEN "crashed" ELSE "metrics"
    /\ UNCHANGED <<files, cache, reads, first_result, runs_left, changes_left,
                   selected_csv, shown_rows, heap, df, df_filtered, filters,
                   mutated, chart, max_cols, cards>>

\* Line 165: render_charts(df_filtered, selected_csv)
RenderCharts ==
    /\ pc = "metrics"
    /\ LET t == heap[df_filtered]
       IN /\ heap' = [heap EXCEPT ![df_filtered] = ChartFrame(t, selected_csv)]
          /\ mutated' = IF ChartAssigns(t, selected_csv)
                        THEN mutated \cup {df_filtered} ELSE mutated
          /\ chart' = render_charts(t, selected_csv)
          /\ pc' = IF render_charts(t, selected_csv) = "error" THEN "crashed" ELSE "charts"
    /\ UNCHANGED <<files, cache, reads, first_result, runs_left, changes_left,
                   selected_csv, shown_rows, df, df_filtered, filters, today,
                   metrics, max_cols, cards>>

\* Line 187: render_cards(df_filtered)
RenderCards ==
    /\ pc = "charts"
    /\ cards' = render_cards(heap[df_filtered], max_cols)
    /\ pc' = "done"
    /\ UNCHANGED <<files, cache, reads, first_result, runs_left, changes_left,
                   selected_csv, shown_rows, heap, df, df_filtered, filters,
                   mutated, today, metrics, chart, max_cols>>

\* Between two runs the file of the module on screen is rewritten: a full
\* file becomes the module's other file, any other file the full one.
FileChange ==
    /\ pc \in {"done", "crashed"}
    /\ changes_left > 0
    /\ changes_left' = changes_left - 1
    /\ LET p == csv_files(selected_csv)
       IN files' = [files EXCEPT ![p] = IF @ = FullFile(selected_csv)
                                        THEN OtherFile(selected_csv)
                                        ELSE FullFile(selected_csv)]
    /\ UNCHANGED <<cache, reads, first_result, runs_left, pc, selected_csv,
                   shown_rows, heap, df, df_filtered, filters, mutated, today,
                   metrics, chart, max_cols, cards>>

Next ==
    \/ \E m \in Modules : StartRun(m)
    \/ RenderFilters
    \/ RenderMetrics
    \/ RenderCharts
    \/ RenderCards
    \/ FileChange

Spec == Init /\ [][Next]_vars

\* One run on one module's file, any of ViewFiles, the other files missing.
InitView ==
    /\ Fresh
    /\ \E m \in Modules : \E f \in ViewFiles(m) :
          files = [p \in Paths |-> IF p = csv_files(m) THEN f ELSE MissingFile]
    /\ runs_left = 1
    /\ changes_left = 0
    /\ max_cols = DefaultMaxCols

NextView ==
    \/ \E m \in Modules : StartRun(m)
    \/ RenderFilters
    \/ RenderMetrics
    \/ RenderCharts
    \/ RenderCards

SpecView == InitView /\ [][NextView]_vars

\* render_cards alone, on frames of 0 to MaxCardRows rows, with and without
\* a title column, for max_cols from 1 to MaxCardCols.
CardFrame(n, titled) ==
    IF titled
    THEN DataFrame(<<"Product Name", "Id">>,
                   [c \in {"Product Name", "Id"} |-> IF c = "Id" THEN "number" ELSE "object"],
                   [i \in 1 .. n |->
                       [c \in {"Product Name", "Id"} |->
                           IF c = "Id" THEN Num(i)
                           ELSE IF i % 2 = 0 THEN NA ELSE Str("P" \o ToString(i))]])
    ELSE DataFrame(<<"Id">>, [c \in {"Id"} |-> "number"],
                   [i \in 1 .. n |-> [c \in {"Id"} |-> Num(i)]])

InitCards ==
    /\ files = [p \in Paths |-> MissingFile]
    /\ cache = [p \in Paths |-> NoEntry]
    /\ reads = [p \in Paths |-> 0]
    /\ first_result = [p \in Paths |-> NoEntry]
    /\ runs_left = 0
    /\ changes_left = 0
    /\ pc = "charts"
    /\ selected_csv = "Products"
    /\ \E n \in 0 .. MaxCardRows : \E titled \in BOOLEAN :
          /\ heap = [r \in {1, 2} |-> CardFrame(n, titled)]
          /\ shown_rows = n
    /\ df = 1
    /\ df_filtered = 2
    /\ filters = NoFilters
    /\ mutated = {}
    /\ today = 2
    /\ metrics = <<>>
    /\ chart = "none"
    /\ max_cols \in 1 .. MaxCardCols
    /\ cards = <<>>

SpecCards == InitCards /\ [][RenderCards]_vars

(***************************************************************************)
(* Properties.                                                             *)
(***************************************************************************)
Table == heap[df]
View == heap[df_filtered]
Filtered == df_filtered # 0
Path == csv_files(selected_csv)

\* a is b with some of its elements left out, the order kept
RECURSIVE IsSubSeq(_, _)
IsSubSeq(a, b) ==
    IF a = <<>> THEN TRUE
    ELSE IF b = <<>> THEN FALSE
    ELSE IF Head(a) = Head(b) THEN IsSubSeq(Tail(a), Tail(b))
    ELSE IsSubSeq(a, Tail(b))

\* C1: in every run of a session, the filtered view holds only rows of the
\* table load_csv returned, in their order and with its columns, so it has
\* at most as many rows; and with an empty filters dict it is the table.
C1_ViewIsSubsetOfTable ==
    Filtered =>
        /\ View.columns = Table.columns
        /\ IsSubSeq(View.rows, Table.rows)
        /\ Len(View.rows) <= Len(Table.rows)
        /\ (DOMAIN filters = {} => View = Table)

C1_Witness ==
    /\ pc = "done"
    /\ runs_left = 0
    /\ DOMAIN filters # {}
    /\ Len(Table.rows) = 2
    /\ Len(View.rows) = 1

\* C2, as claimed: with every multiselect at its default, the full set of
\* the column's non-missing values, the view has exactly the table's rows.
C2_DefaultSelectionKeepsEveryRow ==
    (Filtered /\ filters = DefaultFilters(Table)) => View.rows = Table.rows

\* C3, as claimed: a chart is drawn only with every column it binds present
\* in the view, and with one absent no chart is drawn and nothing is raised.
C3_ChartOnlyWithItsColumns ==
    /\ chart # "error"
    /\ chart = "drawn" => ChartSpec(selected_csv).binds \subseteq Columns(View)

\* C4: when the file selected is missing or unparseable, load_csv returns a
\* frame of no rows and no columns and raises nothing, and the subheader of
\* the run shows 0 rows.
C4_FailedLoadIsEmptyFrame ==
    (pc # "idle" /\ files[Path].state # "ok") =>
        /\ df = 1
        /\ Table.rows = <<>>
        /\ Table.columns = <<>>
        /\ shown_rows = 0

C4_Witness ==
    /\ pc = "loaded"
    /\ files[Path].state = "corrupt"
    /\ Table = EmptyDataFrame
    /\ shown_rows = 0

\* C5: in a session no file is read more than once, and every load_csv call
\* returns the table its first call for that file returned, whatever the
\* file holds by then.
C5_ReadOnceSameTable ==
    /\ \A p \in Paths : reads[p] <= 1
    /\ pc = "loaded" => (first_result[Path].cached /\ Table = first_result[Path].value)

C5_Witness ==
    /\ pc = "loaded"
    /\ reads[Path] = 1
    /\ load_csv_body(files[Path]).value # Table
    /\ Table = first_result[Path].value

\* The number of distinct non-missing values of column c.
DistinctValues(t, c) == Cardinality({t.rows[i][c] : i \in DOMAIN t.rows} \ {NA})

\* C6: a column has an entry in the filters dict exactly when it is a text
\* column with 2 to 50 distinct non-missing values; with no such column the
\* view is the whole table.
C6_FilterControlsByCardinality ==
    Filtered =>
        /\ \A c \in Columns(Table) :
              c \in DOMAIN filters <=>
                  /\ Table.dtypes[c] = "object"
                  /\ DistinctValues(Table, c) >= 2
                  /\ DistinctValues(Table, c) <= 50
        /\ DOMAIN filters \subseteq Columns(Table)
        /\ (\A c \in Columns(Table) :
               Table.dtypes[c] # "object" \/ DistinctValues(Table, c) \notin 2 .. 50)
           => View = Table

C6_Witness ==
    /\ pc = "filtered"
    /\ Columns(Table) = {"Product Name", "Monthly Recurring Revenue"}
    /\ Table.dtypes["Product Name"] = "object"
    /\ DistinctValues(Table, "Product Name") = 51
    /\ DistinctValues(Table, "Monthly Recurring Revenue") = 51
    /\ DOMAIN filters = {}
    /\ Len(View.rows) = 51

\* How a zero is shown, per computation; where a run stopped.
ZeroText(op) ==
    CASE op \in {"count", "upcoming", "sum_plain"} -> "0"
      [] op \in {"sum_currency", "mean_currency"} -> "$0"
      [] op = "mean_rating" -> "0.0/5"

MetricsRaised == pc = "crashed" /\ Filtered /\ chart # "error"
MetricsShown == pc \in {"metrics", "charts", "done"} \/ (pc = "crashed" /\ chart = "error")

\* C7: when a column one of the module's metrics reads is absent from the
\* view, render_metrics raises nothing, shows that metric as zero ("0", "$0"
\* or "0.0/5") and shows the row count of the view.
C7_AbsentColumnMetricIsZero ==
    LET specs == MetricSpecs(selected_csv)
        absent == {i \in DOMAIN specs : specs[i].op # "len" /\ specs[i].col \notin Columns(View)}
    IN (Filtered /\ absent # {}) =>
          /\ ~MetricsRaised
          /\ MetricsShown =>
                /\ Len(metrics) = Len(specs)
                /\ metrics[1] = <<specs[1].label, ToString(Len(View.rows))>>
                /\ \A i \in absent : metrics[i] = <<specs[i].label, ZeroText(specs[i].op)>>

C7_Witness ==
    /\ pc = "metrics"
    /\ selected_csv = "Team Management"
    /\ "Salary" \notin Columns(View)
    /\ "Performance Score" \in Columns(View)
    /\ Len(View.rows) = 2
    /\ metrics = << <<"Total Employees", "2">>, <<"Average Salary", "$0">>,
                    <<"Average Performance", "4.5/5">> >>

\* The rows whose follow-up falls on the day of the clock reading or later.
OnOrAfterToday(t) ==
    {i \in DOMAIN t.rows :
        /\ t.rows[i]["Next Follow-Up Date"].k = "ts"
        /\ t.rows[i]["Next Follow-Up Date"].n \div 2 >= today \div 2}

\* C8, as claimed: Upcoming Follow-Ups is the number of rows of the view
\* whose Next Follow-Up Date falls on the current day or a later one, and it
\* is at most Total Follow-Ups.
C8_UpcomingCountsFromToday ==
    (selected_csv = "Follow-Ups" /\ MetricsShown /\ Filtered
       /\ "Next Follow-Up Date" \in Columns(View)) =>
        /\ metrics[2] = <<"Upcoming Follow-Ups", ToString(Cardinality(OnOrAfterToday(View)))>>
        /\ metrics[1] = <<"Total Follow-Ups", ToString(Len(View.rows))>>
        /\ Cardinality(OnOrAfterToday(View)) <= Len(View.rows)

\* The tiles of a grid, row after row.
RECURSIVE Flatten(_)
Flatten(grid) == IF grid = <<>> THEN <<>> ELSE Head(grid) \o Flatten(Tail(grid))

\* C9: render_cards lays the n rows of the view out in ceil(n / max_cols)
\* grid rows, all of max_cols tiles but possibly the last, one tile per row
\* of the view, in the view's order.
C9_CardsGrid ==
    pc = "done" =>
        LET n == Len(View.rows)
        IN /\ Len(cards) = (n + max_cols - 1) \div max_cols
           /\ \A g \in DOMAIN cards :
                 /\ g < Len(cards) => Len(cards[g]) = max_cols
                 /\ Len(cards[g]) >= 1
                 /\ Len(cards[g]) <= max_cols
           /\ Flatten(cards) = [i \in 1 .. n |-> Tile(View, View.rows[i])]

C9_Witness ==
    /\ pc = "done"
    /\ Len(View.rows) = 7
    /\ max_cols = 3
    /\ [g \in DOMAIN cards |-> Len(cards[g])] = <<3, 3, 1>>
    /\ cards[3][1].fields = << <<"Id", "7">> >>

\* C10: an entry of the load_csv cache never changes once made, the frame
\* load_csv returned to a run is the entry and is never assigned into: the
\* assignment of line 161 goes to the view, another object, also when the
\* filters dict is empty.
C10_CachedTableUntouched ==
    /\ [][\A p \in Paths : cache[p].cached => cache'[p] = cache[p]]_vars
    /\ [](df # 0 => (df \notin mutated /\ cache[Path] = Entry(Table)))

C10_Witness ==
    /\ selected_csv = "Follow-Ups"
    /\ mutated = {df_filtered}
    /\ df_filtered # df
    /\ DOMAIN filters = {}
    /\ Len(View.rows) = 2
    /\ cache[Path] = Entry(Table)

====
